---- MODULE Spec2Model ----
(***************************************************************************)
(* bili-video-converter: repair of .m4s segments (a 9-byte '0' prefix is   *)
(* stripped), probing with ffprobe, merging / audio extraction with        *)
(* ffmpeg, and the per-directory orchestration of process_directory.       *)
(*                                                                         *)
(* Two specifications share this module:                                   *)
(*   RepairSpec  calls of remove_first_9_bytes_if_zero on a small file     *)
(*               system, with every choice of destination and I/O fault;   *)
(*   Spec        one run of process_directory (either copy of the program) *)
(*               against an environment that answers listdir, json, the    *)
(*               prober and the transcoder nondeterministically.           *)
(***************************************************************************)
EXTENDS Integers, Sequences, FiniteSets, TLC

VARIABLES
    fs,          \* RepairSpec: path -> content (a sequence of bytes) or NoFile
    last,        \* RepairSpec: the last call of remove_first_9_bytes_if_zero
    entry,       \* which copy of the program runs: "package" or "script"
    process_mode,\* subset of {"video", "audio"}
    pc,          \* position of process_directory
    items,       \* os.listdir(base_dir), as read at line 298
    idx,         \* index of the item of the for loop at line 303
    title,       \* title of the current item (NoneVal when the json failed)
    group_title, \* group title of the current item
    files,       \* os.listdir(item_path) of the current item
    dirFiles,    \* content of each file of the current item directory
    fidx,        \* index into files (loop at line 316)
    m4s_list,    \* the .m4s paths collected for the current item
    aidx,        \* index into m4s_list (loop at line 328)
    info,        \* result of get_media_info for m4s_list[aidx]
    meta,        \* videoInfo.json of the current item, as the file holds it
    itemLog,     \* calls made for the current item, in order
    processed    \* indices of the items whose processing completed

runVars == <<entry, process_mode, pc, items, idx, title, group_title, files,
             dirFiles, fidx, m4s_list, aidx, info, meta, itemLog, processed>>
vars == <<fs, last, entry, process_mode, pc, items, idx, title, group_title,
          files, dirFiles, fidx, m4s_list, aidx, info, meta, itemLog,
          processed>>

----------------------------------------------------------------------------
(* Bytes, contents and paths *)

\* the number of leading bytes inspected and stripped
PrefixLen == 9

\* ASCII '0'
ZeroChar == 48

\* ASCII 'H', standing for any byte other than '0'
OtherByte == 72

\* longest run of '0' bytes in a generated content
MaxZeros == 18

\* a path that holds no file
NoFile == <<-1>>

\* the Python value None for an optional argument; Some(p) is a given one
NoneArg == <<>>

Some(p) == <<p>>

RECURSIVE Zeros(_)
Zeros(n) == IF n = 0 THEN <<>> ELSE <<ZeroChar>> \o Zeros(n - 1)

\* contents: an optional non-'0' byte, a run of '0', an optional non-'0' byte
Contents ==
    { h \o Zeros(n) \o t : h \in {<<>>, <<OtherByte>>},
                           n \in 0..MaxZeros,
                           t \in {<<>>, <<OtherByte>>} }

P_seg == <<"t", ".", "M", "4", "s">>

P_bin == <<"t", ".", "b", "i", "n">>

P_mod == <<"t", ".", "m", "4", "s", "_", "m">>

Paths == {P_seg, P_bin, P_mod}

\* str.lower() on the characters that occur in the modelled paths
LowerChar(c) ==
    CASE c = "M" -> "m"
      [] c = "S" -> "s"
      [] c = "A" -> "a"
      [] c = "V" -> "v"
      [] OTHER -> c

Lower(s) == [i \in 1..Len(s) |-> LowerChar(s[i])]

EndsWith(s, suf) ==
    /\ Len(s) >= Len(suf)
    /\ SubSeq(s, Len(s) - Len(suf) + 1, Len(s)) = suf

M4sSuffix == <<".", "m", "4", "s">>

IsM4s_Mutant(p) == TRUE

\* input_file.lower().endswith('.m4s')
IsM4s(p) == EndsWith(Lower(p), M4sSuffix)

AllZeroPrefix_Mutant(data) ==
    \A i \in 1..(PrefixLen - 1) : data[i] = ZeroChar

\* all(byte == 0x30 for byte in data[:9])
AllZeroPrefix(data) ==
    \A i \in 1..(IF Len(data) < PrefixLen THEN Len(data) ELSE PrefixLen) :
        data[i] = ZeroChar

StripPrefix_Mutant(data) == SubSeq(data, PrefixLen, Len(data))

\* data[9:]
StripPrefix(data) == SubSeq(data, PrefixLen + 1, Len(data))

----------------------------------------------------------------------------
(* remove_first_9_bytes_if_zero *)

\* faults the file system can raise during one call: none, the read fails,
\* open(..., 'wb') fails, f.write fails after the file was truncated
IOFaults == {"none", "read", "open", "write"}

\* the faults drawn during a run of process_directory, where no claim depends
\* on the bytes a failed write leaves behind
RunIOFaults == {"none", "read"}

\* with open(output_file, 'wb') as f: f.write(bytes), under fault io
WriteFile(f, dest, bytes, io) ==
    CASE io = "open" -> f
      [] io = "write" -> [f EXCEPT ![dest] = <<>>]
      [] OTHER -> [f EXCEPT ![dest] = bytes]

\* the value returned at each exit of the function
ReturnValue(outcome) == outcome = "Stripped"

\* if output_file and output_file != input_file
CopyWanted(inp, out) == out # NoneArg /\ out[1] # inp

\* the function as a whole: the file system afterwards, the message printed
\* (outcome) and the value returned
RepairResult(f, inp, out, io) ==
    LET data == f[inp]
        dest == IF out = NoneArg THEN inp ELSE out[1]
        failed(o) == [fs |-> f, outcome |-> o, ret |-> ReturnValue(o)]
        wrote(g, o) ==
            IF io \in {"open", "write"}
            THEN [fs |-> g, outcome |-> "IOError", ret |-> ReturnValue("IOError")]
            ELSE [fs |-> g, outcome |-> o, ret |-> ReturnValue(o)]
    IN  IF data = NoFile THEN failed("NotFound")
        ELSE IF io = "read" THEN failed("IOError")
        ELSE IF Len(data) < PrefixLen THEN failed("TooSmall")
        ELSE IF ~IsM4s(inp) THEN failed("WrongKind")
        ELSE IF AllZeroPrefix(data)
             THEN wrote(WriteFile(f, dest, StripPrefix(data), io), "Stripped")
        ELSE IF CopyWanted(inp, out)
             THEN wrote(WriteFile(f, out[1], data, io), "Unchanged")
        ELSE failed("Unchanged")

NoCall == [called |-> FALSE]

\* the test driver writes one file and leaves the other paths absent
RepairInit ==
    /\ \E c \in Contents :
           fs = [p \in Paths |-> IF p = P_mod THEN NoFile ELSE c]
    /\ last = NoCall

Repair(inp, out, io) ==
    LET r == RepairResult(fs, inp, out, io)
    IN  /\ fs' = r.fs
        /\ last' = [called |-> TRUE, inp |-> inp, out |-> out, io |-> io,
                         before |-> fs, outcome |-> r.outcome, ret |-> r.ret]

----------------------------------------------------------------------------
(* Strings and paths of the run *)

NoneVal == <<"<None>">>

\* not x, for x a str or None
Falsy(x) == x = NoneVal \/ x = <<>>

Reserved == {"<", ">", ":", "\"", "/", "\\", "|", "?", "*"}

Sep == "/"

\* re.sub(r'[<>:"/\\|?*]', '_', input_path)
clean_Win_illegal_chars(s) ==
    [i \in 1..Len(s) |-> IF s[i] \in Reserved THEN "_" ELSE s[i]]

\* os.path.join(a, b) on POSIX
Join(a, b) ==
    IF Len(b) > 0 /\ b[1] = Sep THEN b
    ELSE IF a = <<>> \/ a[Len(a)] = Sep THEN a \o b
    ELSE a \o <<Sep>> \o b

\* os.path.dirname(p) on POSIX, for a path with no run of separators
Dirname(p) ==
    LET cut == {i \in 1..Len(p) : p[i] = Sep}
    IN  IF cut = {} THEN <<>>
        ELSE LET k == CHOOSE i \in cut : \A j \in cut : j <= i
             IN  IF k = 1 THEN <<Sep>> ELSE SubSeq(p, 1, k - 1)

\* os.path.basename(p)
Basename(p) ==
    LET cut == {i \in 1..Len(p) : p[i] = Sep}
    IN  IF cut = {} THEN p
        ELSE SubSeq(p, (CHOOSE i \in cut : \A j \in cut : j <= i) + 1, Len(p))

BaseDir == <<"b">>

VideoRoot == Join(BaseDir, <<"v", "o">>)

AudioRoot == Join(BaseDir, <<"a", "o">>)

Mp4 == <<"m", "p", "4">>

Aac == <<"a", "a", "c">>

M4a == <<"m", "4", "a">>

Opus == <<"o", "p", "u", "s">>

Digits == {"0", "1", "2", "3", "4", "5", "6", "7", "8", "9"}

\* re.fullmatch(r'\d+', item)
IsDigits(name) == Len(name) >= 1 /\ \A i \in 1..Len(name) : name[i] \in Digits

\* os.path.isdir(item_path) and re.fullmatch(r'\d+', item)
IsItemDir(e) == e.isdir /\ IsDigits(e.name)

----------------------------------------------------------------------------
(* read_json_data, merge_m4s_to_mp4_with_ffmpeg, get_media_info,
   save_audio_file *)

\* one entry of the log of the current item
Ev(kind, inputs, out, env) ==
    [kind |-> kind, inputs |-> inputs, out |-> out, env |-> env]

\* read_json_data of the package: both fields pass clean_Win_illegal_chars
ReadJsonData(m) ==
    IF ~m.ok THEN [title |-> NoneVal, group_title |-> NoneVal]
    ELSE [title |-> clean_Win_illegal_chars(m.title),
          group_title |-> clean_Win_illegal_chars(m.groupTitle)]

\* read_json_data of the top-level script: the fields are returned as read
ReadJsonDataScript(m) ==
    IF ~m.ok THEN [title |-> NoneVal, group_title |-> NoneVal]
    ELSE [title |-> m.title, group_title |-> m.groupTitle]

FileName(t, ext) == t \o <<".">> \o ext

\* lines 205-208: the path of the merged file
MergeOutputPath(root, t, g) ==
    IF Falsy(g) \/ g = t THEN Join(root, FileName(t, Mp4))
    ELSE Join(Join(root, g), FileName(t, Mp4))

MergeGuard_Mutant(list, t, present) ==
    /\ Len(list) >= 2
    /\ list[1] \in present
    /\ list[2] \in present

\* lines 185-202: the checks that precede the invocation
MergeGuard(list, t, present) ==
    /\ Len(list) >= 2
    /\ list[1] \in present
    /\ list[2] \in present
    /\ ~Falsy(t)

\* answers of the transcoder: exit 0, exit non-zero, TimeoutExpired, any
\* other exception of subprocess.run
TranscoderOutcomes == {"ok", "nonzero", "timeout", "oserror"}

MkdirOutcomes == {"ok", "fail"}

\* lines 189-190 and 218-219: video input first, audio input second
MergeInputs(list) == <<list[1], list[2]>>

\* the function as a whole: the events it adds, whether it raised, its value
MergeResult(list, t, g, root, present, mk, oc) ==
    IF ~MergeGuard(list, t, present)
    THEN [events |-> <<>>, raised |-> FALSE, ret |-> FALSE]
    ELSE LET out == MergeOutputPath(root, t, g)
             flat == Falsy(g) \/ g = t
             md == IF flat THEN <<>>
                   ELSE <<Ev("makedirs", <<>>, Dirname(out), "")>>
         IN  IF ~flat /\ mk = "fail"
             THEN [events |-> md, raised |-> TRUE, ret |-> FALSE]
             ELSE [events |-> md \o
                       <<Ev("ffmpeg_merge", MergeInputs(list), out, "")>>,
                   raised |-> FALSE, ret |-> oc = "ok"]

\* answers of the prober
ProbeFailures == {"nonzero", "timeout", "unparseable", "missing"}

ProbeStreams ==
    { [codec_type |-> "audio", codec_name |-> Aac],
      [codec_type |-> "audio", codec_name |-> Opus],
      [codec_type |-> "video", codec_name |-> <<"h">>] }

ProbeOutcomes ==
    { [status |-> f, stream |-> <<>>] : f \in ProbeFailures }
    \cup { [status |-> "ok", stream |-> <<st>>] : st \in ProbeStreams }

\* whether the local variable info is bound when the except clause runs
InfoBound(status) == status = "missing"

\* get_media_info: <<>> stands for None. The except clause prints info, which
\* is unbound when subprocess.run or json.loads raised.
GetMediaInfo(oc) ==
    CASE oc.status = "ok" -> [raised |-> FALSE, info |-> oc.stream]
      [] oc.status = "nonzero" -> [raised |-> FALSE, info |-> <<>>]
      [] OTHER -> IF InfoBound(oc.status)
                  THEN [raised |-> FALSE, info |-> <<>>]
                  ELSE [raised |-> TRUE, info |-> <<>>]

\* 'm4a' if info['codec_name'] == 'aac' else info['codec_name']
Suffix(codec) == IF codec = Aac THEN M4a ELSE codec

\* lines 130-136: the path of the extracted audio file
AudioOutputPath(root, t, g, codec) ==
    IF Falsy(g) \/ g = t THEN Join(root, FileName(t, Suffix(codec)))
    ELSE Join(Join(root, g), FileName(t, Suffix(codec)))

\* save_audio_file as a whole
SaveAudioResult(m4s, inf, t, g, root, mk, oc) ==
    IF Falsy(t) THEN [events |-> <<>>, raised |-> FALSE, ret |-> FALSE]
    ELSE LET out == AudioOutputPath(root, t, g, inf.codec_name)
             flat == Falsy(g) \/ g = t
             md == IF flat THEN <<>>
                   ELSE <<Ev("makedirs", <<>>, Dirname(out), "")>>
         IN  IF ~flat /\ mk = "fail"
             THEN [events |-> md, raised |-> TRUE, ret |-> FALSE]
             ELSE [events |-> md \o <<Ev("ffmpeg_audio", <<m4s>>, out, "")>>,
                   raised |-> FALSE, ret |-> oc = "ok"]

----------------------------------------------------------------------------
(* The environment of one run *)

\* entries listed in the base directory
MaxItems == 2

\* files listed in one item directory
MaxFiles == 2

Entries ==
    { [name |-> <<"1">>, isdir |-> TRUE],
      [name |-> <<"2", "0">>, isdir |-> TRUE],
      [name |-> <<"v", "o">>, isdir |-> TRUE],
      [name |-> <<"3">>, isdir |-> FALSE] }

Injective(q) == \A i, j \in 1..Len(q) : q[i] = q[j] => i = j

SeqsUpTo(S, n) == UNION { [1..k -> S] : k \in 0..n }

Range(q) == { q[i] : i \in 1..Len(q) }

\* what os.listdir(base_dir) can return
Listings == { q \in SeqsUpTo(Entries, MaxItems) : Injective(q) }

FileNames ==
    { <<"v", ".", "m", "4", "s">>,
      <<"a", ".", "M", "4", "S">>,
      <<"i", ".", "j">> }

\* what os.listdir(item_path) can return
DirListings == { q \in SeqsUpTo(FileNames, MaxFiles) : Injective(q) }

\* a segment as downloaded with the sentinel, and one without it
SegContents ==
    { Zeros(PrefixLen) \o <<OtherByte>>, <<OtherByte>> \o Zeros(PrefixLen) }

RawTitles == { <<>>, <<"a", ":">> }

RawGroups == { <<>>, <<"a", "_">>, <<"g", "/">> }

\* videoInfo.json: unreadable, or holding a title and a group title
Metas ==
    { [ok |-> FALSE, title |-> <<>>, groupTitle |-> <<>>] }
    \cup { [ok |-> TRUE, title |-> t, groupTitle |-> g] :
               t \in RawTitles, g \in RawGroups }

NoMeta == [ok |-> FALSE, title |-> <<>>, groupTitle |-> <<>>]

ItemPath(i) == Join(BaseDir, items[i].name)

Present == { p \in DOMAIN dirFiles : dirFiles[p] # NoFile }

Modes(e) ==
    IF e = "script" THEN { {"video"} }
    ELSE { {"video"}, {"audio"}, {"video", "audio"} }

----------------------------------------------------------------------------
(* process_directory *)

RunIdle ==
    /\ entry = "package"
    /\ process_mode = {}
    /\ pc = "idle"
    /\ items = <<>>
    /\ idx = 0
    /\ title = NoneVal
    /\ group_title = NoneVal
    /\ files = <<>>
    /\ dirFiles = <<>>
    /\ fidx = 0
    /\ m4s_list = <<>>
    /\ aidx = 0
    /\ info = <<>>
    /\ meta = NoMeta
    /\ itemLog = <<>>
    /\ processed = {}

RunInit ==
    /\ entry \in {"package", "script"}
    /\ process_mode \in Modes(entry)
    /\ pc = "start"
    /\ items = <<>>
    /\ idx = 0
    /\ title = NoneVal
    /\ group_title = NoneVal
    /\ files = <<>>
    /\ dirFiles = <<>>
    /\ fidx = 0
    /\ m4s_list = <<>>
    /\ aidx = 0
    /\ info = <<>>
    /\ meta = NoMeta
    /\ itemLog = <<>>
    /\ processed = {}

\* lines 286-301: the listing is read; a failed listing ends the run
Start ==
    /\ pc = "start"
    /\ \/ \E q \in Listings : items' = q /\ idx' = 1 /\ pc' = "item"
       \/ items' = <<>> /\ idx' = 0 /\ pc' = "done"
    /\ UNCHANGED <<fs, last, entry, process_mode, title, group_title, files,
                   dirFiles, fidx, m4s_list, aidx, info, meta, itemLog,
                   processed>>

\* line 335: an entry that is no digit-named directory is skipped
SkipItem ==
    /\ pc = "item"
    /\ idx <= Len(items)
    /\ ~IsItemDir(items[idx])
    /\ idx' = idx + 1
    /\ UNCHANGED <<fs, last, entry, process_mode, pc, items, title,
                   group_title, files, dirFiles, fidx, m4s_list, aidx, info,
                   meta, itemLog, processed>>

\* lines 308-316: the json is read and the item directory is listed
OpenItem ==
    /\ pc = "item"
    /\ idx <= Len(items)
    /\ IsItemDir(items[idx])
    /\ \E m \in Metas, q \in DirListings :
         \E c \in [{n \in Range(q) : IsM4s(n)} -> SegContents] :
           LET r == IF entry = "script" THEN ReadJsonDataScript(m)
                    ELSE ReadJsonData(m)
               path(n) == Join(ItemPath(idx), n)
           IN  /\ meta' = m
               /\ title' = r.title
               /\ group_title' = r.group_title
               /\ files' = q
               /\ dirFiles' =
                      [p \in {path(n) : n \in Range(q)} |->
                          LET n == Basename(p)
                          IN  IF IsM4s(n) THEN c[n] ELSE <<OtherByte>>]
    /\ fidx' = 1
    /\ m4s_list' = <<>>
    /\ aidx' = 0
    /\ info' = <<>>
    /\ itemLog' = <<>>
    /\ pc' = "repair"
    /\ UNCHANGED <<fs, last, entry, process_mode, items, idx, processed>>

\* lines 316-321: one file of the item directory
RepairStep ==
    /\ pc = "repair"
    /\ fidx <= Len(files)
    /\ LET p == Join(ItemPath(idx), files[fidx])
       IN  IF IsM4s(files[fidx])
           THEN \E io \in RunIOFaults :
                  LET r == RepairResult(dirFiles, p, NoneArg, io)
                  IN  /\ m4s_list' = Append(m4s_list, p)
                      /\ dirFiles' = r.fs
                      /\ itemLog' = Append(itemLog,
                                           Ev("repair", <<p>>, <<>>, ""))
           ELSE UNCHANGED <<m4s_list, dirFiles, itemLog>>
    /\ fidx' = fidx + 1
    /\ UNCHANGED <<fs, last, entry, process_mode, pc, items, idx, title,
                   group_title, files, aidx, info, meta, processed>>

\* the calls that follow the loop moved into its body: they start as soon as
\* one file has been handled
EndRepair_Mutant ==
    /\ pc = "repair"
    /\ fidx > 1
    /\ pc' = IF "video" \in process_mode THEN "merge" ELSE "audio"
    /\ aidx' = 1
    /\ files' = <<>>
    /\ fidx' = 0
    /\ UNCHANGED <<fs, last, entry, process_mode, items, idx, title,
                   group_title, dirFiles, m4s_list, info, meta, itemLog,
                   processed>>

\* lines 323 and 327: the loop over the files is over
EndRepair ==
    /\ pc = "repair"
    /\ fidx > Len(files)
    /\ pc' = IF "video" \in process_mode THEN "merge" ELSE "audio"
    /\ aidx' = 1
    /\ files' = <<>>
    /\ fidx' = 0
    /\ UNCHANGED <<fs, last, entry, process_mode, items, idx, title,
                   group_title, dirFiles, m4s_list, info, meta, itemLog,
                   processed>>

\* another process removes one of the two segments before the merge looks
EnvRemove ==
    /\ pc = "merge"
    /\ \E k \in 1..2 :
         /\ k <= Len(m4s_list)
         /\ dirFiles[m4s_list[k]] # NoFile
         /\ dirFiles' = [dirFiles EXCEPT ![m4s_list[k]] = NoFile]
    /\ UNCHANGED <<fs, last, entry, process_mode, pc, items, idx, title,
                   group_title, files, fidx, m4s_list, aidx, info, meta,
                   itemLog, processed>>

\* lines 323-325: merge_m4s_to_mp4_with_ffmpeg is called
Merge ==
    /\ pc = "merge"
    /\ \E mk \in MkdirOutcomes, oc \in TranscoderOutcomes :
         LET r == MergeResult(m4s_list, title, group_title, VideoRoot,
                              Present, mk, oc)
         IN  IF r.raised
             THEN /\ itemLog' = itemLog \o r.events \o
                        <<Ev("raised", <<"merge_m4s_to_mp4_with_ffmpeg">>, <<>>,
                             "makedirs")>>
                  /\ pc' = "crashed"
             ELSE /\ itemLog' = itemLog \o r.events \o
                        <<Ev("merge_return", <<>>, <<>>,
                             IF r.ret THEN "True" ELSE "False")>>
                  /\ pc' = IF "audio" \in process_mode THEN "audio" ELSE "next"
    /\ UNCHANGED <<fs, last, entry, process_mode, items, idx, title,
                   group_title, files, dirFiles, fidx, m4s_list, aidx, info,
                   meta, processed>>

\* line 329: get_media_info(m4s_file)
Probe ==
    /\ pc = "audio"
    /\ aidx <= Len(m4s_list)
    /\ \E oc \in ProbeOutcomes :
         /\ dirFiles[m4s_list[aidx]] = NoFile => oc.status = "nonzero"
         /\ LET r == GetMediaInfo(oc)
                ev == Ev("ffprobe", <<m4s_list[aidx]>>, <<>>, "")
            IN  IF r.raised
                THEN /\ itemLog' = itemLog \o
                           <<ev, Ev("raised", <<"get_media_info">>, <<>>,
                                    oc.status)>>
                     /\ pc' = "crashed"
                     /\ UNCHANGED <<info, aidx>>
                ELSE /\ itemLog' = Append(itemLog, ev)
                     /\ info' = r.info
                     /\ IF r.info # <<>> /\ r.info[1].codec_type = "audio"
                        THEN pc' = "save" /\ aidx' = aidx
                        ELSE pc' = "audio" /\ aidx' = aidx + 1
    /\ UNCHANGED <<fs, last, entry, process_mode, items, idx, title,
                   group_title, files, dirFiles, fidx, m4s_list, meta,
                   processed>>

\* lines 330-333: save_audio_file for a segment probed as audio
Save ==
    /\ pc = "save"
    /\ \E mk \in MkdirOutcomes, oc \in TranscoderOutcomes :
         LET r == SaveAudioResult(m4s_list[aidx], info[1], title, group_title,
                                  AudioRoot, mk, oc)
         IN  IF r.raised
             THEN /\ itemLog' = itemLog \o r.events \o
                        <<Ev("raised", <<"save_audio_file">>, <<>>, "makedirs")>>
                  /\ pc' = "crashed"
                  /\ aidx' = aidx
             ELSE /\ itemLog' = itemLog \o r.events
                  /\ pc' = "audio"
                  /\ aidx' = aidx + 1
    /\ UNCHANGED <<fs, last, entry, process_mode, items, idx, title,
                   group_title, files, dirFiles, fidx, m4s_list, info, meta,
                   processed>>

\* line 303: the body of the loop is over for this item
EndItem ==
    /\ \/ pc = "next"
       \/ pc = "audio" /\ aidx > Len(m4s_list)
    /\ processed' = processed \cup {idx}
    /\ idx' = idx + 1
    /\ pc' = "item"
    /\ title' = NoneVal
    /\ group_title' = NoneVal
    /\ dirFiles' = <<>>
    /\ m4s_list' = <<>>
    /\ aidx' = 0
    /\ info' = <<>>
    /\ meta' = NoMeta
    /\ itemLog' = <<>>
    /\ UNCHANGED <<fs, last, entry, process_mode, items, files, fidx>>

\* line 336: the loop over the entries is over
Finish ==
    /\ pc = "item"
    /\ idx > Len(items)
    /\ pc' = "done"
    /\ UNCHANGED <<fs, last, entry, process_mode, items, idx, title,
                   group_title, files, dirFiles, fidx, m4s_list, aidx, info,
                   meta, itemLog, processed>>

Init ==
    /\ fs = [p \in Paths |-> NoFile]
    /\ last = NoCall
    /\ RunInit

Next ==
    \/ Start
    \/ SkipItem
    \/ OpenItem
    \/ RepairStep
    \/ EndRepair
    \/ EnvRemove
    \/ Merge
    \/ Probe
    \/ Save
    \/ EndItem
    \/ Finish

Spec == Init /\ [][Next]_vars

----------------------------------------------------------------------------
(* Calls of remove_first_9_bytes_if_zero on their own *)

RepairCall ==
    /\ \E inp \in Paths, out \in {NoneArg} \cup {Some(p) : p \in Paths},
          io \in IOFaults : Repair(inp, out, io)
    /\ UNCHANGED runVars

RepairSpecInit == RepairInit /\ RunIdle

RepairNext == RepairCall

RepairSpec == RepairSpecInit /\ [][RepairNext]_vars

----------------------------------------------------------------------------
(* Claims about remove_first_9_bytes_if_zero, checked under RepairSpec *)

\* what the last call read, and where a result would go
LastData == last.before[last.inp]

LastDest == IF last.out = NoneArg THEN last.inp ELSE last.out[1]

NinePrefixIsZero(data) == \A i \in 1..9 : data[i] = 48

WithoutFirstNine(data) == [i \in 1..(Len(data) - 9) |-> data[i + 9]]

OthersUntouched(written) ==
    \A p \in Paths \ written : fs[p] = last.before[p]

\* C1: a .m4s file of at least 9 bytes whose first 9 bytes are all '0' is
\* reported Stripped (True); the destination (the input path by default, the
\* alternate destination when one is given) then holds the content without
\* its first 9 bytes, and with an alternate destination the original file is
\* untouched.
C1_StrippedWritesRemainder ==
    ( /\ last.called
      /\ last.io = "none"
      /\ last.inp = P_seg
      /\ LastData # NoFile
      /\ Len(LastData) >= 9
      /\ NinePrefixIsZero(LastData) )
    => /\ last.outcome = "Stripped"
       /\ last.ret = TRUE
       /\ fs[LastDest] = WithoutFirstNine(LastData)
       /\ OthersUntouched({LastDest})

C1_Witness ==
    /\ last.called
    /\ last.io = "none"
    /\ last.inp = P_seg
    /\ last.out = Some(P_mod)
    /\ LastData = Zeros(9) \o <<OtherByte>>
    /\ last.ret = TRUE
    /\ fs[P_mod] = <<OtherByte>>
    /\ fs[P_seg] = LastData

\* C2: a .m4s file of at least 9 bytes whose first 9 bytes are not all '0' is
\* reported Unchanged and keeps its bytes; an alternate destination other
\* than the input path receives the full content, and with no destination no
\* file is written.
C2_UnchangedKeepsBytes ==
    ( /\ last.called
      /\ last.inp = P_seg
      /\ LastData # NoFile
      /\ Len(LastData) >= 9
      /\ ~NinePrefixIsZero(LastData) )
    => /\ fs[last.inp] = LastData
       /\ last.ret = FALSE
       /\ last.io = "none" =>
            /\ last.outcome = "Unchanged"
            /\ IF last.out # NoneArg /\ last.out[1] # last.inp
               THEN fs[last.out[1]] = LastData
                    /\ OthersUntouched({last.out[1]})
               ELSE fs = last.before

C2_Witness ==
    /\ last.called
    /\ last.io = "none"
    /\ last.inp = P_seg
    /\ last.out = Some(P_mod)
    /\ LastData = Zeros(8) \o <<OtherByte>>
    /\ last.outcome = "Unchanged"
    /\ last.before[P_mod] = NoFile
    /\ fs[P_mod] = LastData

C4_RepairIdempotent ==
    [][ ( /\ last.called
          /\ last.outcome = "Stripped"
          /\ last.out = NoneArg
          /\ last'.called
          /\ last'.inp = last.inp
          /\ last'.out = NoneArg
          /\ last'.io = "none"
          /\ last'.before = fs )
        => (last'.ret = FALSE /\ fs' = fs) ]_vars

\* the values a caller sees for the four outcomes of a repair
NormalReturnValues ==
    { ReturnValue(o) : o \in {"Stripped", "Unchanged", "TooSmall", "WrongKind"} }

\* C5: a failed read or write is seen by the caller as a value different from
\* the value of each of Stripped, Unchanged, TooSmall and WrongKind.
C5_IOFailureDistinct ==
    (last.called /\ last.outcome \in {"NotFound", "IOError"})
    => last.ret \notin NormalReturnValues

----------------------------------------------------------------------------
(* Claims about one run of process_directory, checked under Spec *)

EventsOf(kind) == SelectSeq(itemLog, LAMBDA e : e.kind = kind)

Happened(kind) == \E i \in 1..Len(itemLog) : itemLog[i].kind = kind

\* the cases in which the merge must not reach the transcoder
MergeNotAllowed ==
    \/ Len(m4s_list) < 2
    \/ dirFiles[m4s_list[1]] = NoFile
    \/ dirFiles[m4s_list[2]] = NoFile
    \/ ~meta.ok
    \/ meta.title = <<>>

AllItemsProcessed ==
    \A i \in 1..Len(items) : IsItemDir(items[i]) => i \in processed

\* C7: no failure of an item aborts the run: when the run has ended, it has
\* ended at its normal end with every digit-named subdirectory processed.
C7_RunReachesNormalEnd ==
    pc \in {"done", "crashed"} => (pc = "done" /\ AllItemsProcessed)

\* C8: a probe failure, whatever its cause, comes back to the caller as a
\* failure value: get_media_info never ends the run by raising.
C8_ProbeFailureReturned ==
    \A i \in 1..Len(itemLog) :
        itemLog[i].kind = "raised" => itemLog[i].inputs # <<"get_media_info">>

\* C9: the transcoder extracts each audio segment once and into its own
\* output: two different segments of one item never share an output path.
C9_AudioOwnTarget ==
    LET calls == EventsOf("ffmpeg_audio")
    IN  \A i, j \in 1..Len(calls) :
           i # j => /\ calls[i].inputs # calls[j].inputs
                    /\ calls[i].out # calls[j].out

\* the merge path of spec 4.4 for the sanitized title and group title
SanitizedMergePath ==
    LET T == clean_Win_illegal_chars(meta.title)
        G == clean_Win_illegal_chars(meta.groupTitle)
    IN  IF G = <<>> \/ G = T
        THEN VideoRoot \o <<Sep>> \o T \o <<".">> \o Mp4
        ELSE VideoRoot \o <<Sep>> \o G \o <<Sep>> \o T \o <<".">> \o Mp4

SanitizedGroupDir ==
    VideoRoot \o <<Sep>> \o clean_Win_illegal_chars(meta.groupTitle)

MergePathIsSanitized ==
    \A i \in 1..Len(itemLog) :
        itemLog[i].kind = "ffmpeg_merge" =>
            /\ itemLog[i].out = SanitizedMergePath
            /\ SanitizedMergePath # VideoRoot \o <<Sep>> \o
                   clean_Win_illegal_chars(meta.title) \o <<".">> \o Mp4
               => \E j \in 1..(i - 1) :
                      /\ itemLog[j].kind = "makedirs"
                      /\ itemLog[j].out = SanitizedGroupDir

\* C10: the merge path handed to the transcoder is root/T.mp4 or
\* root/G/T.mp4 for the sanitized title T and group title G, with root/G
\* created before the invocation; no reserved character reaches the path.
C10_MergePathSanitized == MergePathIsSanitized

\* the same statement for the packaged program alone
PackageMergePathSanitized == entry = "package" => MergePathIsSanitized

PackageMergeWithReservedTitle ==
    /\ entry = "package"
    /\ meta.ok
    /\ meta.title = <<"a", ":">>
    /\ meta.groupTitle = <<"g", "/">>
    /\ Happened("ffmpeg_merge")

\* the prober and transcoder invocations, and the events that name a segment
Invocations == {"ffprobe", "ffmpeg_merge", "ffmpeg_audio"}

SegmentEvents == Invocations \cup {"repair"}

\* the segments of the item directory being processed
ItemSegments == { p \in DOMAIN dirFiles : IsM4s(Basename(p)) }

\* C11: within an item every segment is repaired before the first prober or
\* transcoder invocation, and no repair follows an invocation; every repair
\* and invocation concerns the item being processed, and every item before
\* it in the listing is complete (digit-named directories processed), so
\* nothing of one item happens after the next item has begun.
C11_SequentialRepairFirst ==
    /\ \A i \in 1..Len(itemLog) :
         itemLog[i].kind \in Invocations =>
           /\ \A p \in ItemSegments :
                \E j \in 1..(i - 1) :
                    itemLog[j].kind = "repair" /\ itemLog[j].inputs = <<p>>
           /\ \A j \in (i + 1)..Len(itemLog) : itemLog[j].kind # "repair"
    /\ \A i \in 1..Len(itemLog) :
         itemLog[i].kind \in SegmentEvents =>
           \A k \in 1..Len(itemLog[i].inputs) :
               /\ idx \in 1..Len(items)
               /\ idx \notin processed
               /\ Dirname(itemLog[i].inputs[k]) = BaseDir \o <<Sep>> \o items[idx].name
    /\ \A i \in 1..Len(items) :
         /\ i \in processed => i < idx /\ IsItemDir(items[i])
         /\ (i < idx /\ IsItemDir(items[i])) => i \in processed

\* the second item of a run in both modes, after its two repairs, its merge
\* and a probe, with the first item complete
C11_Witness ==
    /\ process_mode = {"video", "audio"}
    /\ idx = 2
    /\ processed = {1}
    /\ Len(EventsOf("repair")) = 2
    /\ Len(EventsOf("ffmpeg_merge")) = 1
    /\ Len(EventsOf("ffprobe")) >= 1

====
